---- MODULE Spec2Model ----
(***************************************************************************)
(* Attendance Data Transformer (src/app.py): a Streamlit script that reads *)
(* an attendance table, aligns its columns with a canonical vocabulary,    *)
(* groups the rows by class, summarises each class and keeps the results   *)
(* in the session state.                                                   *)
(*                                                                         *)
(* Conventions of the model                                                *)
(*  - Python strings are TLA+ strings; where the code looks inside a       *)
(*    string (re.findall, str.split, the "in" substring test, the edit     *)
(*    distance of rapidfuzz) the string is spelled out by Chars.           *)
(*  - A DataFrame is [cols |-> sequence of column names,                   *)
(*    rows |-> sequence of rows], a row being the sequence of its cells in *)
(*    column order.                                                        *)
(*  - A cell is Text(s), Num(n), a float64 or NaNCell (a blank cell, the    *)
(*    float NaN). A float64 is the pair of its mantissa and exponent, and  *)
(*    the model divides, multiplies and adds with the rounding of the      *)
(*    script's float64 operations.                                         *)
(*  - A value rounded to two decimals is held as an integer of hundredths  *)
(*    (9.00 is 900), and NaN for the float NaN.                            *)
(***************************************************************************)
EXTENDS Integers, Sequences, FiniteSets, TLC

VARIABLES
    processed,           \* st.session_state.processed
    summary_df,          \* st.session_state.summary_df
    detailed_dfs,        \* st.session_state.detailed_dfs
    sorted_class_names,  \* st.session_state.sorted_class_names
    ss_working_days,     \* st.session_state.working_days
    file_uploader_key,   \* st.session_state.file_uploader_key
    highlights,          \* st.session_state.highlights
    uploaded_file,       \* the file held by the current file_uploader widget
    working_days,        \* the value of the "Total working days" number_input
    number_input_value,  \* the value= parameter the number_input was built
                         \* with in the last run of the script
    class_input,         \* the mapping text inputs / the class-names text area
    cache,               \* the entries of st.cache_data for read_excel
    last_run,            \* what the last script run did: how it ended, whether
                         \* process_real_data was called, whether the results
                         \* were shown, its messages
    call,                \* arguments of a function called on its own
    ret                  \* its result

vars == <<processed, summary_df, detailed_dfs, sorted_class_names, ss_working_days,
          file_uploader_key, highlights, uploaded_file, working_days,
          number_input_value, class_input, cache, last_run, call, ret>>

session == <<processed, summary_df, detailed_dfs, sorted_class_names, ss_working_days,
             file_uploader_key, highlights>>

widgets == <<uploaded_file, working_days, number_input_value, class_input, cache,
             last_run>>

-----------------------------------------------------------------------------
(* Values *)

None == "None"

\* The float NaN where a value rounded to two decimals is expected.
NaN == 0 - 1

IsNaN(x) == x = NaN

\* Cells
NaNCell == [nan |-> TRUE]

Text(s) == [s |-> s]

\* An integer cell (a value of an int64 column, n >= 0).
Num(n) == [num |-> n, den |-> 1]

IsInteger(cell) == DOMAIN cell = {"num", "den"}

\* A float64 cell: the value m * 2^e, m a natural number of MantissaBits bits
\* (or zero), kept as limbs.
IsFloat(cell) == DOMAIN cell = {"m", "e"}

IsNumber(cell) == IsInteger(cell) \/ IsFloat(cell)

-----------------------------------------------------------------------------
(* float64 arithmetic: every operation rounds its exact result to the
   nearest double, ties to even.  Values are non-negative and finite. *)

MantissaBits == 53

\* Naturals of any size: limbs in base 2^LimbBits, least significant first,
\* no zero limb at the top.
LimbBits == 15

Limb == 2 ^ LimbBits

RECURSIVE BigFromInt(_)
BigFromInt(n) ==
    IF n = 0 THEN << >> ELSE <<n % Limb>> \o BigFromInt(n \div Limb)

RECURSIVE BigToInt(_)
BigToInt(a) ==
    IF a = << >> THEN 0 ELSE Head(a) + Limb * BigToInt(Tail(a))

RECURSIVE BigNorm(_)
BigNorm(a) ==
    IF a = << >> THEN << >>
    ELSE IF a[Len(a)] = 0 THEN BigNorm(SubSeq(a, 1, Len(a) - 1))
    ELSE a

\* The limbs of a * c + carry * Limb^(i - 1) from limb i on, after product
RECURSIVE MulFrom(_, _, _, _, _)
MulFrom(a, c, i, carry, product) ==
    IF i > Len(a) THEN product \o BigFromInt(carry)
    ELSE MulFrom(a, c, i + 1, (a[i] * c + carry) \div Limb,
                 Append(product, (a[i] * c + carry) % Limb))

\* a * c, 0 <= c <= Limb
BigMulSmall(a, c) == IF c = 0 THEN << >> ELSE MulFrom(a, c, 1, 0, << >>)

LowLimb(a) == IF a = << >> THEN 0 ELSE a[1]

LimbAt(a, i) == IF i <= Len(a) THEN a[i] ELSE 0

RECURSIVE AddFrom(_, _, _, _, _)
AddFrom(a, b, i, carry, sum) ==
    IF i > Len(a) /\ i > Len(b) THEN sum \o BigFromInt(carry)
    ELSE AddFrom(a, b, i + 1, (LimbAt(a, i) + LimbAt(b, i) + carry) \div Limb,
                 Append(sum, (LimbAt(a, i) + LimbAt(b, i) + carry) % Limb))

BigAdd(a, b) == AddFrom(a, b, 1, 0, << >>)

\* Long division from the top limb down: limbs i..1 are still to divide, r is
\* the remainder and q the quotient of the limbs above them.
RECURSIVE DivFrom(_, _, _, _, _)
DivFrom(a, d, i, r, q) ==
    IF i = 0 THEN [q |-> BigNorm(q), r |-> r]
    ELSE DivFrom(a, d, i - 1, (r * Limb + a[i]) % d,
                 <<(r * Limb + a[i]) \div d>> \o q)

\* Quotient and remainder of a by d, 0 < d <= Limb
DivRem(a, d) == DivFrom(a, d, Len(a), 0, << >>)

\* The bits of n, four at a time
RECURSIVE BitLen(_)
BitLen(n) ==
    IF n >= 16 THEN 4 + BitLen(n \div 16)
    ELSE IF n >= 8 THEN 4
    ELSE IF n >= 4 THEN 3
    ELSE IF n >= 2 THEN 2
    ELSE n

BigBitLength(a) ==
    IF a = << >> THEN 0 ELSE LimbBits * (Len(a) - 1) + BitLen(a[Len(a)])

BigShiftLeft(a, s) ==
    IF a = << >> \/ s = 0 THEN a
    ELSE IF s % LimbBits = 0 THEN [i \in 1..(s \div LimbBits) |-> 0] \o a
    ELSE [i \in 1..(s \div LimbBits) |-> 0]
             \o BigMulSmall(a, 2 ^ (s % LimbBits))

\* dr.q with the remainder dr.r of a division by 2 * half below it, and
\* sticky telling of ones below that: the nearest natural, ties to even
NearestEven(dr, half, sticky) ==
    IF dr.r > half \/ (dr.r = half /\ (sticky \/ LowLimb(dr.q) % 2 = 1))
    THEN BigAdd(dr.q, <<1>>)
    ELSE dr.q

\* q / 2^drop rounded, drop > 0: the whole limbs dropped only tell of ones
DropLimbs(q, sticky, drop, limbs) ==
    NearestEven(DivRem(SubSeq(q, limbs + 1, Len(q)), 2 ^ (drop - LimbBits * limbs)),
                2 ^ (drop - LimbBits * limbs - 1),
                sticky \/ \E i \in 1..limbs : i <= Len(q) /\ q[i] # 0)

RoundedShift(q, sticky, drop) ==
    DropLimbs(q, sticky, drop, (drop - 1) \div LimbBits)

Normalised(m, e) ==
    IF BigBitLength(m) > MantissaBits
    THEN [m |-> DivRem(m, 2).q, e |-> e + 1]
    ELSE [m |-> m, e |-> e]

ShiftedBy(q, sticky, e, drop) ==
    Normalised(RoundedShift(q, sticky, drop), e + drop)

\* q * 2^e, q of more than MantissaBits bits, with sticky below it
Shifted(q, sticky, e) == ShiftedBy(q, sticky, e, BigBitLength(q) - MantissaBits)

Quotient(dr, e) == Shifted(dr.q, dr.r # 0, e)

\* Bits to add below a dividend of so many bits for a quotient by a divisor
\* of dbits bits to have more than MantissaBits bits
Headroom(bits, dbits) ==
    IF bits >= MantissaBits + 1 + dbits THEN 0
    ELSE MantissaBits + 1 + dbits - bits

DZero == [m |-> << >>, e |-> 0]

\* n * 2^e for an n of so many bits, at most MantissaBits: no rounding
Exact(n, e, bits) ==
    [m |-> BigShiftLeft(n, MantissaBits - bits), e |-> e - (MantissaBits - bits)]

\* The double nearest to n * 2^e
RoundNatural(n, e) ==
    IF n = << >> THEN DZero
    ELSE IF BigBitLength(n) <= MantissaBits THEN Exact(n, e, BigBitLength(n))
    ELSE Shifted(n, FALSE, e)

Divided(n, d, e, room) == Quotient(DivRem(BigShiftLeft(n, room), d), e - room)

\* The double nearest to n / d * 2^e, 0 < d <= Limb
RoundToDouble(n, d, e) ==
    IF n = << >> THEN DZero
    ELSE IF d = 1 THEN RoundNatural(n, e)
    ELSE Divided(n, d, e, Headroom(BigBitLength(n), BitLen(d)))

DFromInt(n) == RoundNatural(BigFromInt(n), 0)

\* x / d
DDivInt(x, d) == RoundToDouble(x.m, d, x.e)

\* x * c
DMulInt(x, c) == RoundNatural(BigMulSmall(x.m, c), x.e)

Aligned(x, y, e) ==
    RoundNatural(BigAdd(BigShiftLeft(x.m, x.e - e), BigShiftLeft(y.m, y.e - e)), e)

\* x + y
DAdd(x, y) ==
    IF x.m = << >> THEN y
    ELSE IF y.m = << >> THEN x
    ELSE Aligned(x, y, IF x.e <= y.e THEN x.e ELSE y.e)

\* numpy.rint: the nearest integer, ties to even
Rint(x) ==
    IF x.m = << >> THEN 0
    ELSE IF x.e >= 0 THEN BigToInt(BigShiftLeft(x.m, x.e))
    ELSE BigToInt(RoundedShift(x.m, FALSE, 0 - x.e))

\* The float64 value of a numeric cell
ToDouble(cell) == IF IsInteger(cell) THEN DFromInt(cell.num) ELSE cell

-----------------------------------------------------------------------------
(* Strings *)

Chars ==
    "" :> <<>> @@
    "GRADE 1" :> <<"G", "R", "A", "D", "E", " ", "1">> @@
    "GRADE 2" :> <<"G", "R", "A", "D", "E", " ", "2">> @@
    "GRADE 10" :> <<"G", "R", "A", "D", "E", " ", "1", "0">> @@
    "GRADE 01" :> <<"G", "R", "A", "D", "E", " ", "0", "1">> @@
    "GRADE 02" :> <<"G", "R", "A", "D", "E", " ", "0", "2">> @@
    "GRADE 03" :> <<"G", "R", "A", "D", "E", " ", "0", "3">> @@
    "GRADE 04" :> <<"G", "R", "A", "D", "E", " ", "0", "4">> @@
    "GRADE 05" :> <<"G", "R", "A", "D", "E", " ", "0", "5">> @@
    "GRADE 06" :> <<"G", "R", "A", "D", "E", " ", "0", "6">> @@
    "GRADE 07" :> <<"G", "R", "A", "D", "E", " ", "0", "7">> @@
    "GRADE Hifz" :> <<"G", "R", "A", "D", "E", " ", "H", "i", "f", "z">> @@
    "UNASSIGNED" :> <<"U", "N", "A", "S", "S", "I", "G", "N", "E", "D">> @@
    "A2B10" :> <<"A", "2", "B", "1", "0">> @@
    "1st Year" :> <<"1", "s", "t", " ", "Y", "e", "a", "r">> @@
    "2nd Year" :> <<"2", "n", "d", " ", "Y", "e", "a", "r">> @@
    "3rd Year" :> <<"3", "r", "d", " ", "Y", "e", "a", "r">> @@
    "4th Year" :> <<"4", "t", "h", " ", "Y", "e", "a", "r">> @@
    "5th Year" :> <<"5", "t", "h", " ", "Y", "e", "a", "r">> @@
    "6th Year" :> <<"6", "t", "h", " ", "Y", "e", "a", "r">> @@
    "7th Year" :> <<"7", "t", "h", " ", "Y", "e", "a", "r">> @@
    "Hifz" :> <<"H", "i", "f", "z">> @@
    "Admission No" :> <<"A", "d", "m", "i", "s", "s", "i", "o", "n", " ", "N", "o">> @@
    "Student Name" :> <<"S", "t", "u", "d", "e", "n", "t", " ", "N", "a", "m", "e">> @@
    "Present" :> <<"P", "r", "e", "s", "e", "n", "t">> @@
    "Absent" :> <<"A", "b", "s", "e", "n", "t">> @@
    "Late" :> <<"L", "a", "t", "e">> @@
    "Very_Late" :> <<"V", "e", "r", "y", "_", "L", "a", "t", "e">> @@
    "Very Late" :> <<"V", "e", "r", "y", " ", "L", "a", "t", "e">> @@
    "course_name" :> <<"c", "o", "u", "r", "s", "e", "_", "n", "a", "m", "e">> @@
    "Course Name" :> <<"C", "o", "u", "r", "s", "e", " ", "N", "a", "m", "e">> @@
    "Class" :> <<"C", "l", "a", "s", "s">> @@
    "Grade" :> <<"G", "r", "a", "d", "e">> @@
    "Section" :> <<"S", "e", "c", "t", "i", "o", "n">> @@
    "Adm No" :> <<"A", "d", "m", " ", "N", "o">> @@
    "Name Student" :> <<"N", "a", "m", "e", " ", "S", "t", "u", "d", "e", "n", "t">> @@
    "Presents" :> <<"P", "r", "e", "s", "e", "n", "t", "s">> @@
    "Days Present" :> <<"D", "a", "y", "s", " ", "P", "r", "e", "s", "e", "n", "t">> @@
    "Absent Days" :> <<"A", "b", "s", "e", "n", "t", " ", "D", "a", "y", "s">> @@
    "Absent Periods" :>
        <<"A", "b", "s", "e", "n", "t", " ", "P", "e", "r", "i", "o", "d", "s">> @@
    "Attend" :> <<"A", "t", "t", "e", "n", "d">> @@
    "Roll" :> <<"R", "o", "l", "l">>

\* The characters in code point order.
CodePoints ==
    <<" ", "%", "0", "1", "2", "3", "4", "5", "6", "7", "8", "9",
      "A", "B", "C", "D", "E", "F", "G", "H", "I", "J", "K", "L", "M",
      "N", "O", "P", "Q", "R", "S", "T", "U", "V", "W", "X", "Y", "Z", "_",
      "a", "b", "c", "d", "e", "f", "g", "h", "i", "j", "k", "l", "m",
      "n", "o", "p", "q", "r", "s", "t", "u", "v", "w", "x", "y", "z">>

Ord(c) == CHOOSE i \in 1..Len(CodePoints) : CodePoints[i] = c

Digits == <<"0", "1", "2", "3", "4", "5", "6", "7", "8", "9">>

IsDigit(c) == \E i \in 1..Len(Digits) : Digits[i] = c

DigitValue(c) == (CHOOSE i \in 1..Len(Digits) : Digits[i] = c) - 1

IsSpace(c) == c = " "

\* The string spelled by cs.
Str(cs) == CHOOSE s \in DOMAIN Chars : Chars[s] = cs

\* Python's < on str: lexicographic by code point.
RECURSIVE StrLess(_, _)
StrLess(a, b) ==
    IF b = <<>> THEN FALSE
    ELSE IF a = <<>> THEN TRUE
    ELSE IF Ord(Head(a)) # Ord(Head(b)) THEN Ord(Head(a)) < Ord(Head(b))
    ELSE StrLess(Tail(a), Tail(b))

\* key in str(course)
IsSubstring(key, s) ==
    \E i \in 0..(Len(s) - Len(key)) : SubSeq(s, i + 1, i + Len(key)) = key

-----------------------------------------------------------------------------
(* sort_class_names *)

\* re.findall(r'\d+', name)[0]: the first maximal run of digits, <<>> if none.
RECURSIVE TakeDigits(_)
TakeDigits(cs) ==
    IF cs = <<>> \/ ~IsDigit(Head(cs)) THEN <<>>
    ELSE <<Head(cs)>> \o TakeDigits(Tail(cs))

RECURSIVE FirstDigitRun(_)
FirstDigitRun(cs) ==
    IF cs = <<>> THEN <<>>
    ELSE IF IsDigit(Head(cs)) THEN TakeDigits(cs)
    ELSE FirstDigitRun(Tail(cs))

\* int(digits)
RECURSIVE ParseInt(_)
ParseInt(ds) ==
    IF ds = <<>> THEN 0
    ELSE ParseInt(SubSeq(ds, 1, Len(ds) - 1)) * 10 + DigitValue(ds[Len(ds)])

RECURSIVE Reverse(_)
Reverse(s) == IF s = <<>> THEN <<>> ELSE Reverse(Tail(s)) \o <<Head(s)>>

\* Another reading of the key: the last run of digits in place of the first.
extract_number_last(name) ==
    LET run == Reverse(FirstDigitRun(Reverse(Chars[name])))
    IN  IF run = <<>> THEN [inf |-> TRUE, n |-> 0]
        ELSE [inf |-> FALSE, n |-> ParseInt(run)]

\* int(numbers[0]) if numbers else float('inf')
extract_number(name) ==
    LET run == FirstDigitRun(Chars[name])
    IN  IF run = <<>> THEN [inf |-> TRUE, n |-> 0]
        ELSE [inf |-> FALSE, n |-> ParseInt(run)]

\* a < b on the values extract_number returns
NumberLess(a, b) ==
    IF a.inf THEN FALSE
    ELSE IF b.inf THEN TRUE
    ELSE a.n < b.n

\* sorted(): stable, each element goes behind those whose key is not greater.
RECURSIVE InsertByKey(_, _)
InsertByKey(sorted, x) ==
    IF sorted = <<>> THEN <<x>>
    ELSE IF NumberLess(extract_number(x), extract_number(Head(sorted)))
         THEN <<x>> \o sorted
         ELSE <<Head(sorted)>> \o InsertByKey(Tail(sorted), x)

RECURSIVE SortedByKey(_)
SortedByKey(names) ==
    IF names = <<>> THEN <<>>
    ELSE InsertByKey(SortedByKey(SubSeq(names, 1, Len(names) - 1)), names[Len(names)])

\* The names in the order they come in, unsorted.
unsorted_class_names(class_names) == class_names

sort_class_names(class_names) == SortedByKey(class_names)

-----------------------------------------------------------------------------
(* rapidfuzz: fuzz.token_sort_ratio and process.extractOne *)

\* s.split(): the maximal runs of non-space characters.
RECURSIVE SplitFrom(_, _)
SplitFrom(cs, word) ==
    IF cs = <<>> THEN (IF word = <<>> THEN <<>> ELSE <<word>>)
    ELSE IF IsSpace(Head(cs))
         THEN (IF word = <<>> THEN <<>> ELSE <<word>>) \o SplitFrom(Tail(cs), <<>>)
         ELSE SplitFrom(Tail(cs), Append(word, Head(cs)))

Split(cs) == SplitFrom(cs, <<>>)

RECURSIVE InsertToken(_, _)
InsertToken(sorted, t) ==
    IF sorted = <<>> THEN <<t>>
    ELSE IF StrLess(t, Head(sorted)) THEN <<t>> \o sorted
    ELSE <<Head(sorted)>> \o InsertToken(Tail(sorted), t)

RECURSIVE SortTokens(_)
SortTokens(ts) ==
    IF ts = <<>> THEN <<>>
    ELSE InsertToken(SortTokens(SubSeq(ts, 1, Len(ts) - 1)), ts[Len(ts)])

RECURSIVE Join(_)
Join(ts) ==
    IF ts = <<>> THEN <<>>
    ELSE IF Len(ts) = 1 THEN ts[1]
    ELSE ts[1] \o <<" ">> \o Join(Tail(ts))

\* " ".join(sorted(s.split()))
TokenSorted(cs) == Join(SortTokens(Split(cs)))

Max2(a, b) == IF a >= b THEN a ELSE b

\* The first j cells of one row of the longest-common-subsequence table: prev
\* is the row of the characters before c, the result the row that includes c.
RECURSIVE LcsRow(_, _, _, _)
LcsRow(prev, c, b, j) ==
    IF j = 0 THEN <<>>
    ELSE LET before == LcsRow(prev, c, b, j - 1)
             left == IF j = 1 THEN 0 ELSE before[j - 1]
             diag == IF j = 1 THEN 0 ELSE prev[j - 1]
         IN  Append(before, IF b[j] = c THEN diag + 1 ELSE Max2(prev[j], left))

\* The row of the table after the first i characters of a.
RECURSIVE LcsRows(_, _, _)
LcsRows(a, b, i) ==
    IF i = 0 THEN [j \in 1..Len(b) |-> 0]
    ELSE LET prev == LcsRows(a, b, i - 1)
         IN  LcsRow(prev, a[i], b, Len(prev))

LcsLength(a, b) ==
    IF b = <<>> THEN 0 ELSE LcsRows(a, b, Len(a))[Len(b)]

\* Indel similarity of the token-sorted strings as the fraction num/den of 1:
\* 1 - (len1 + len2 - 2 * lcs) / (len1 + len2), and 1 for two empty strings.
\* The score is 100 * num / den.
token_sort_ratio(s1, s2) ==
    LET a == TokenSorted(Chars[s1])
        b == TokenSorted(Chars[s2])
    IN  IF Len(a) + Len(b) = 0 THEN [num |-> 1, den |-> 1]
        ELSE [num |-> 2 * LcsLength(a, b), den |-> Len(a) + Len(b)]

\* The scores of the labels the script looks for, computed once.
ScoreTable ==
    [query \in {"Admission No", "Student Name", "Present", "Absent",
                "Late", "Very_Late", "Very Late"} |->
        [choice \in DOMAIN Chars |-> token_sort_ratio(query, choice)]]

\* score a > score b
ScoreGreater(a, b) == a.num * b.den > b.num * a.den

\* score > cutoff, cutoff an integer percentage
ScoreAbove(score, cutoff) == 100 * score.num > cutoff * score.den

\* process.extractOne(query, choices, scorer=fuzz.token_sort_ratio): the first
\* choice of the highest score, [found |-> FALSE] (Python's None) for no choices.
extractOne(query, choices) ==
    IF choices = <<>> THEN [found |-> FALSE]
    ELSE LET score == [i \in 1..Len(choices) |-> ScoreTable[query][choices[i]]]
             best == CHOOSE i \in 1..Len(choices) :
                        /\ \A j \in 1..Len(choices) : ~ScoreGreater(score[j], score[i])
                        /\ \A j \in 1..(i - 1) : ScoreGreater(score[i], score[j])
         IN  [found |-> TRUE, choice |-> choices[best], score |-> score[best]]

-----------------------------------------------------------------------------
(* pandas: the DataFrame operations the script uses *)

Range(f) == {f[i] : i \in DOMAIN f}

HasColumn(df, name) == \E i \in 1..Len(df.cols) : df.cols[i] = name

ColumnIndex(df, name) ==
    CHOOSE i \in 1..Len(df.cols) :
        df.cols[i] = name /\ \A j \in 1..(i - 1) : df.cols[j] # name

\* df[name] as the sequence of its cells
Column(df, name) == [r \in 1..Len(df.rows) |-> df.rows[r][ColumnIndex(df, name)]]

\* df[name] = values (one value per row): replaces the column or appends it.
WithColumn(df, name, values) ==
    IF HasColumn(df, name)
    THEN [cols |-> df.cols,
          rows |-> [r \in 1..Len(df.rows) |->
                       [df.rows[r] EXCEPT ![ColumnIndex(df, name)] = values[r]]]]
    ELSE [cols |-> Append(df.cols, name),
          rows |-> [r \in 1..Len(df.rows) |-> Append(df.rows[r], values[r])]]

\* df[name] = scalar
WithConstant(df, name, value) ==
    WithColumn(df, name, [r \in 1..Len(df.rows) |-> value])

\* df.rename(columns=mapping): a column whose name is a key of the mapping
\* takes the value as its name.
Rename(df, mapping) ==
    [cols |-> [i \in 1..Len(df.cols) |->
                  IF df.cols[i] \in DOMAIN mapping THEN mapping[df.cols[i]]
                  ELSE df.cols[i]],
     rows |-> df.rows]

RECURSIVE SelectSeq2(_, _)
SelectSeq2(rows, keep) ==
    IF rows = <<>> THEN <<>>
    ELSE (IF keep[1] THEN <<Head(rows)>> ELSE <<>>)
         \o SelectSeq2(Tail(rows), Tail(keep))

\* df[mask]
Filter(df, mask) ==
    [cols |-> df.cols,
     rows |-> SelectSeq2(df.rows, [r \in 1..Len(df.rows) |-> mask[r]])]

\* df.iloc[start:end]: a bound past the last row stops at the last row.
Slice(df, start, end) ==
    [cols |-> df.cols,
     rows |-> IF start >= Len(df.rows) THEN <<>>
              ELSE SubSeq(df.rows, start + 1,
                          IF end > Len(df.rows) THEN Len(df.rows) ELSE end)]

\* [col for col in names if col in df.columns]
RECURSIVE Existing(_, _)
Existing(df, names) ==
    IF names = <<>> THEN <<>>
    ELSE (IF HasColumn(df, Head(names)) THEN <<Head(names)>> ELSE <<>>)
         \o Existing(df, Tail(names))

\* df[names], every name a column of df
Project(df, names) ==
    [cols |-> names,
     rows |-> [r \in 1..Len(df.rows) |->
                  [k \in 1..Len(names) |-> df.rows[r][ColumnIndex(df, names[k])]]]]

\* A Python dict: the keys in insertion order and the value of each key.
\* d[k] = v keeps the place of a key that is already there.
DictSet(d, k, v) ==
    [keys |-> IF k \in Range(d.keys) THEN d.keys ELSE Append(d.keys, k),
     val  |-> [x \in Range(d.keys) \cup {k} |-> IF x = k THEN v ELSE d.val[x]]]

EmptyDict == [keys |-> <<>>, val |-> <<>>]

-----------------------------------------------------------------------------
(* process_real_data *)

MatchThreshold == 60

required_columns == <<"Admission No", "Student Name", "Present", "Absent">>

optional_columns == <<"Late", "Very_Late", "Very Late">>

output_columns ==
    <<"Admission No", "Student Name", "Working_Days", "Present", "Absent",
      "Late", "Very_Late", "Attendance %", "Class">>

Message(kind, arg) == [kind |-> kind, arg |-> arg]

\* match and match[1] > 60
Accepted(match) == match.found /\ ScoreAbove(match.score, MatchThreshold)

\* The column that column_mapping[label] names: the accepted match, else (for a
\* required label) the label itself.
MappedColumn(label, available_columns) ==
    LET match == extractOne(label, available_columns)
    IN  IF Accepted(match) THEN match.choice ELSE label

\* The warnings of the loop over required_columns, in its order.
RECURSIVE RequiredMessages(_, _)
RequiredMessages(labels, available_columns) ==
    IF labels = <<>> THEN <<>>
    ELSE (IF Accepted(extractOne(Head(labels), available_columns)) THEN <<>>
          ELSE <<Message("no matching column", Head(labels))>>)
         \o RequiredMessages(Tail(labels), available_columns)

\* The st.info lines of the loop over optional_columns, in its order.
RECURSIVE OptionalMessages(_, _)
OptionalMessages(labels, available_columns) ==
    IF labels = <<>> THEN <<>>
    ELSE (IF Accepted(extractOne(Head(labels), available_columns))
          THEN <<Message("mapped", Head(labels))>> ELSE <<>>)
         \o OptionalMessages(Tail(labels), available_columns)

\* column_mapping and the messages of lines 515-531: every required label is
\* a key, an optional label only with an accepted match.
BuildColumnMapping(available_columns) ==
    [mapping |->
        [label \in Range(required_columns) \cup
                   {opt_col \in Range(optional_columns) :
                       Accepted(extractOne(opt_col, available_columns))} |->
            MappedColumn(label, available_columns)],
     messages |-> RequiredMessages(required_columns, available_columns)
                  \o OptionalMessages(optional_columns, available_columns)]

\* df = df.rename(columns=column_mapping)
AlignColumns(df, column_mapping) == Rename(df, column_mapping)

\* Lines 536-544: Late and Very_Late are added when missing.
AddMissingColumns(df) ==
    LET withLate == IF HasColumn(df, "Late") THEN df
                    ELSE WithConstant(df, "Late", Num(0))
    IN  IF HasColumn(withLate, "Very_Late") THEN withLate
        ELSE IF HasColumn(withLate, "Very Late")
             THEN WithColumn(withLate, "Very_Late", Column(withLate, "Very Late"))
             ELSE WithConstant(withLate, "Very_Late", Num(0))

\* (present / working_days) * 100: a float64 division, then a float64
\* multiplication
AttendancePercent(present, wd) ==
    IF IsNumber(present) THEN DMulInt(DDivInt(ToDouble(present), wd), 100)
    ELSE NaNCell

\* Lines 546-548; the new column is a sequence of computed values.
AddAttendance(df, wd) ==
    LET withDays == WithConstant(df, "Working_Days", Num(wd))
        present == Column(withDays, "Present")
    IN  WithColumn(withDays, "Attendance %",
                   SubSeq([r \in 1..Len(df.rows) |->
                              AttendancePercent(present[r], wd)],
                          1, Len(df.rows)))

\* Series.map(class_mapping) on one cell: the class of a raw value that is a
\* key of the dict, NaN for any other.
MapValue(class_mapping, value) ==
    IF value \in DOMAIN class_mapping THEN Text(class_mapping[value]) ELSE NaNCell

\* class_data[output_columns], after the filter of the columns that exist
SelectOutput(class_data) == Project(class_data, Existing(class_data, output_columns))

\* df['Class'] = df[course_column].map(class_mapping)
ResolveClass(df, course_column, class_mapping) ==
    LET raw == Column(df, course_column)
    IN  WithColumn(df, "Class",
                   [r \in 1..Len(df.rows) |-> MapValue(class_mapping, raw[r])])

\* df = df[df['Class'].isin(class_list)]
FilterDeclared(df, class_list) ==
    LET class == Column(df, "Class")
    IN  Filter(df, [r \in 1..Len(df.rows) |->
                       \E k \in 1..Len(class_list) : class[r] = Text(class_list[k])])

\* The frame without the comparison with class_name.
RowsOfAnyClass(df, class_name) == df

\* df[df['Class'] == class_name]
RowsOfClass(df, class_name) ==
    LET class == Column(df, "Class")
    IN  Filter(df, [r \in 1..Len(df.rows) |-> class[r] = Text(class_name)])

NoResult ==
    [detailed_dfs |-> EmptyDict, handed |-> <<>>, messages |-> <<>>, start_idx |-> 0]

\* The loop of lines 559-574 over class_list: an empty class is reported and
\* skipped.
RECURSIVE CategoryLoop(_, _)
CategoryLoop(df, class_list) ==
    IF class_list = <<>> THEN NoResult
    ELSE LET class_name == class_list[Len(class_list)]
             class_data == RowsOfClass(df, class_name)
             before == CategoryLoop(df, SubSeq(class_list, 1, Len(class_list) - 1))
         IN  IF class_data.rows = <<>>
             THEN [before EXCEPT !.messages =
                      Append(@, Message("no students", class_name))]
             ELSE [before EXCEPT !.detailed_dfs =
                      DictSet(@, class_name, SelectOutput(class_data))]

\* The comparison with <= in place of <.
ExtraRowUpTo(i, remainder) == IF i <= remainder THEN 1 ELSE 0

\* 1 if i < remainder else 0
ExtraRow(i, remainder) == IF i < remainder THEN 1 ELSE 0

\* The loop of lines 584-598 after its first n rounds; handed lists the slices
\* in the order they were assigned, detailed_dfs[class_name] keeps the last one
\* assigned to the name.
RECURSIVE PositionalLoop(_, _, _)
PositionalLoop(df, class_list, n) ==
    IF n = 0 THEN NoResult
    ELSE LET before == PositionalLoop(df, class_list, n - 1)
             i == n - 1
             class_name == class_list[i + 1]
             students_per_class == Len(df.rows) \div Len(class_list)
             remainder == Len(df.rows) % Len(class_list)
             end_idx == before.start_idx + students_per_class + ExtraRow(i, remainder)
             class_data == SelectOutput(
                               WithConstant(Slice(df, before.start_idx, end_idx),
                                            "Class", Text(class_name)))
         IN  [detailed_dfs |-> DictSet(before.detailed_dfs, class_name, class_data),
              handed |-> Append(before.handed, [class_name |-> class_name,
                                                class_data |-> class_data]),
              messages |-> before.messages,
              start_idx |-> end_idx]



Raised(error, df, column_mapping, messages) ==
    [raised |-> error, strategy |-> "none", column_mapping |-> column_mapping,
     aligned |-> df, detailed_dfs |-> EmptyDict,
     handed |-> <<>>, messages |-> messages]

\* if course_column and class_mapping
UseCategory(course_column, class_mapping) ==
    course_column # None /\ DOMAIN class_mapping # {}

\* A normal return of process_real_data
Returned(aligned, built, strategy, warning, out) ==
    [raised |-> "none", strategy |-> strategy, column_mapping |-> built.mapping,
     aligned |-> aligned, detailed_dfs |-> out.detailed_dfs, handed |-> out.handed,
     messages |-> built.messages \o warning \o out.messages]

\* Lines 550-600: the rows of the frame with its derived columns, by class.
GroupRows(aligned, built, derived, class_list, course_column, class_mapping) ==
    IF UseCategory(course_column, class_mapping)
    THEN Returned(aligned, built, "category", <<>>,
                  CategoryLoop(FilterDeclared(ResolveClass(derived, course_column,
                                                           class_mapping),
                                              class_list),
                               class_list))
    ELSE IF class_list = <<>>
    THEN Raised("ZeroDivisionError", aligned, built.mapping,
                Append(built.messages, Message("no course column", "")))
    ELSE Returned(aligned, built, "positional",
                  <<Message("no course column", "")>>,
                  PositionalLoop(derived, class_list, Len(class_list)))

\* Lines 536-600: df['Present'] raises KeyError when the frame has no such
\* column, and dividing it by None raises TypeError.
DeriveColumns(aligned, built, class_list, course_column, class_mapping, wd) ==
    IF ~HasColumn(aligned, "Present")
    THEN Raised("KeyError", aligned, built.mapping, built.messages)
    ELSE IF ~wd.set
    THEN Raised("TypeError", aligned, built.mapping, built.messages)
    ELSE GroupRows(aligned, built, AddAttendance(AddMissingColumns(aligned), wd.value),
                   class_list, course_column, class_mapping)

\* Lines 533-600 with column_mapping and its messages at hand
RenameColumns(df, built, class_list, course_column, class_mapping, wd) ==
    DeriveColumns(AlignColumns(df, built.mapping), built, class_list, course_column,
                  class_mapping, wd)

\* process_real_data(df, class_list, course_column, class_mapping, working_days):
\* detailed_dfs is what the function returns, raised the exception that ends it
\* ("none" for a normal return); aligned is df after the rename. wd is the
\* value of the number_input.
process_real_data(df, class_list, course_column, class_mapping, wd) ==
    RenameColumns(df, BuildColumnMapping(df.cols), class_list, course_column,
                  class_mapping, wd)

-----------------------------------------------------------------------------
(* The summary rows (lines 624-643) *)

RECURSIVE CountNumbers(_)
CountNumbers(cells) ==
    IF cells = <<>> THEN 0
    ELSE (IF IsNumber(Head(cells)) THEN 1 ELSE 0) + CountNumbers(Tail(cells))

\* The column as float64 values, 0.0 in the place of every NaN
Filled(cells) ==
    SubSeq([i \in 1..Len(cells) |->
               IF IsNumber(cells[i]) THEN ToDouble(cells[i]) ELSE DZero],
           1, Len(cells))

\* numpy adds a float64 array up pairwise: short arrays in order, arrays of
\* up to PW_BLOCKSIZE values in Unroll interleaved partial sums, longer ones
\* split in two.
Unroll == 8

PW_BLOCKSIZE == 128

\* res + a[i] + a[i + 1] + ... + a[j], added in this order
RECURSIVE AddInOrder(_, _, _, _)
AddInOrder(a, i, j, res) ==
    IF i > j THEN res ELSE AddInOrder(a, i + 1, j, DAdd(res, a[i]))

\* res + a[i] + a[i + Unroll] + ... up to position last
RECURSIVE Lane(_, _, _, _)
Lane(a, i, last, res) ==
    IF i > last THEN res ELSE Lane(a, i + Unroll, last, DAdd(res, a[i]))

\* The partial sum r[k - 1] of the n values after position lo
PartialSum(a, lo, n, k) ==
    Lane(a, lo + k + Unroll, lo + n - (n % Unroll), a[lo + k])

PairwiseBlock(a, lo, n) ==
    AddInOrder(a, lo + n - (n % Unroll) + 1, lo + n,
        DAdd(DAdd(DAdd(PartialSum(a, lo, n, 1), PartialSum(a, lo, n, 2)),
                  DAdd(PartialSum(a, lo, n, 3), PartialSum(a, lo, n, 4))),
             DAdd(DAdd(PartialSum(a, lo, n, 5), PartialSum(a, lo, n, 6)),
                  DAdd(PartialSum(a, lo, n, 7), PartialSum(a, lo, n, 8)))))

\* The sum of the n values of a after position lo
RECURSIVE PairwiseSum(_, _, _)
PairwiseSum(a, lo, n) ==
    IF n < Unroll THEN AddInOrder(a, lo + 1, lo + n, DZero)
    ELSE IF n <= PW_BLOCKSIZE THEN PairwiseBlock(a, lo, n)
    ELSE DAdd(PairwiseSum(a, lo, (n \div 2) - ((n \div 2) % Unroll)),
              PairwiseSum(a, lo + (n \div 2) - ((n \div 2) % Unroll),
                          n - ((n \div 2) - ((n \div 2) % Unroll))))

\* Series.mean(): NaN cells are skipped, the float64 sum of the others is
\* divided by their count; NaN when nothing is left.
Mean(cells) ==
    IF CountNumbers(cells) = 0 THEN NaNCell
    ELSE DDivInt(PairwiseSum(Filled(cells), 0, Len(cells)), CountNumbers(cells))

\* round(x, 2) of a float64 in hundredths: x * 100 in float64, then the
\* nearest integer, a tie going to the even neighbour; the result is the
\* double nearest to that many hundredths.
Round2(x) == IF ~IsNumber(x) THEN NaN ELSE Rint(DMulInt(ToDouble(x), 100))

\* The dict appended to summary_data for one class
SummaryRow(class_name, df_detail, wd) ==
    [Class |-> class_name,
     Total_Students |-> Len(df_detail.rows),
     Total_Working_Days |-> wd,
     Avg_Present |-> Round2(Mean(Column(df_detail, "Present"))),
     Avg_Absent |-> Round2(Mean(Column(df_detail, "Absent"))),
     Avg_Late |-> Round2(Mean(Column(df_detail, "Late"))),
     Avg_Very_Late |-> Round2(Mean(Column(df_detail, "Very_Late"))),
     Avg_Attendance_Percentage |->
         Round2(Mean(Column(df_detail, "Attendance %")))]

\* summary_df: one row per class of sorted_class_names
SummaryRows(detailed, names, wd) ==
    [k \in 1..Len(names) |-> SummaryRow(names[k], detailed.val[names[k]], wd)]

\* df_detail["Absent"] raises KeyError when a class table has no such column.
SummaryRaises(detailed) ==
    \E k \in 1..Len(detailed.keys) : ~HasColumn(detailed.val[detailed.keys[k]], "Absent")

-----------------------------------------------------------------------------
(* generate_highlights (the tables of students it also returns are left out) *)

TopCount == 10

NoClass == [class_name |-> None, attendance_percentage |-> NaN, avg_absent |-> NaN]

\* pd.concat(detailed_dfs.values()): the rows of every class table, in dict order
RECURSIVE AllRows(_, _)
AllRows(detailed, keys) ==
    IF keys = <<>> THEN <<>>
    ELSE detailed.val[Head(keys)].rows \o AllRows(detailed, Tail(keys))

RECURSIVE CountZeroAbsent(_, _)
CountZeroAbsent(detailed, keys) ==
    IF keys = <<>> THEN 0
    ELSE LET absent == Column(detailed.val[Head(keys)], "Absent")
         IN  Cardinality({r \in DOMAIN absent : absent[r] = Num(0)})
             + CountZeroAbsent(detailed, Tail(keys))

Min2(a, b) == IF a <= b THEN a ELSE b

\* The last row holding the highest value in place of the first.
IdxMaxLast(rows, idx) ==
    LET numbers == {k \in idx : ~IsNaN(rows[k].Avg_Attendance_Percentage)}
    IN  IF numbers = {} THEN 0
        ELSE CHOOSE k \in numbers :
                /\ \A j \in numbers :
                      rows[j].Avg_Attendance_Percentage <= rows[k].Avg_Attendance_Percentage
                /\ \A j \in numbers :
                      j > k => rows[j].Avg_Attendance_Percentage
                               < rows[k].Avg_Attendance_Percentage

\* Series.idxmax() / idxmin() over the rows in idx (NaN skipped): the first
\* row holding the extreme value, 0 when every value is NaN.
IdxMax(rows, idx) ==
    LET numbers == {k \in idx : ~IsNaN(rows[k].Avg_Attendance_Percentage)}
    IN  IF numbers = {} THEN 0
        ELSE CHOOSE k \in numbers :
                /\ \A j \in numbers :
                      rows[j].Avg_Attendance_Percentage <= rows[k].Avg_Attendance_Percentage
                /\ \A j \in numbers :
                      j < k => rows[j].Avg_Attendance_Percentage
                               < rows[k].Avg_Attendance_Percentage

IdxMin(rows, idx) ==
    LET numbers == {k \in idx : ~IsNaN(rows[k].Avg_Attendance_Percentage)}
    IN  IF numbers = {} THEN 0
        ELSE CHOOSE k \in numbers :
                /\ \A j \in numbers :
                      rows[j].Avg_Attendance_Percentage >= rows[k].Avg_Attendance_Percentage
                /\ \A j \in numbers :
                      j < k => rows[j].Avg_Attendance_Percentage
                               > rows[k].Avg_Attendance_Percentage

\* summary_df[summary_df['Avg_Absent'] > 0]
WithAbsentees(rows) == {k \in 1..Len(rows) : rows[k].Avg_Absent > 0}

\* generate_highlights raises: KeyError for a missing 'Student Name' column,
\* and the lookup of idxmax()/idxmin() fails when every percentage is NaN.
HighlightsRaise(detailed, rows) ==
    \/ \E k \in 1..Len(detailed.keys) :
          ~HasColumn(detailed.val[detailed.keys[k]], "Student Name")
    \/ IdxMax(rows, 1..Len(rows)) = 0
    \/ WithAbsentees(rows) # {} /\ IdxMax(rows, WithAbsentees(rows)) = 0

ClassEntry(row) ==
    [class_name |-> row.Class,
     attendance_percentage |-> row.Avg_Attendance_Percentage]

generate_highlights(detailed, rows) ==
    LET best == rows[IdxMax(rows, 1..Len(rows))]
        worst == rows[IdxMin(rows, 1..Len(rows))]
        some == WithAbsentees(rows)
    IN  [zero_absence_count |-> CountZeroAbsent(detailed, detailed.keys),
         high_absence_count |-> Min2(TopCount, Len(AllRows(detailed, detailed.keys))),
         best_class |-> ClassEntry(best),
         worst_class |-> ClassEntry(worst),
         best_class_with_absentees |->
             IF some = {} THEN NoClass
             ELSE LET row == rows[IdxMax(rows, some)]
                  IN  [class_name |-> row.Class,
                       attendance_percentage |-> row.Avg_Attendance_Percentage,
                       avg_absent |-> row.Avg_Absent]]

-----------------------------------------------------------------------------
(* read_excel (lines 309-333). A workbook is readable or not and holds its   *)
(* sheets in their order, each with its name and its table.                  *)

\* pd.read_excel(file, engine="openpyxl"): the table of the first sheet; an
\* exception for a file that openpyxl cannot open.
ReadFirstSheet(file) ==
    IF ~file.readable THEN [raised |-> TRUE]
    ELSE [raised |-> FALSE, df |-> file.sheets[1].df]

\* pd.read_excel(file, sheet_name=name, engine="openpyxl"): the table of the
\* sheet of that name; an exception when the workbook has no such sheet.
ReadNamedSheet(file, name) ==
    IF ~file.readable \/ \A i \in 1..Len(file.sheets) : file.sheets[i].name # name
    THEN [raised |-> TRUE]
    ELSE [raised |-> FALSE,
          df |-> file.sheets[CHOOSE i \in 1..Len(file.sheets) :
                                file.sheets[i].name = name].df]

\* What read_excel returns: found is FALSE for None.
ReadResult(read) ==
    IF read.raised
    THEN [found |-> FALSE, messages |-> <<Message("error", "reading file")>>]
    ELSE [found |-> TRUE, df |-> read.df, messages |-> <<>>]

\* The handler without its second attempt.
FallbackNone(file) ==
    [found |-> FALSE, messages |-> <<Message("error", "reading file")>>]

\* The handler of lines 317-322: the first sheet is read, and a failure of
\* that is reported and answered with None.
Fallback(file) == ReadResult(ReadFirstSheet(file))

\* Lines 312-316, read being the outcome of the read in the try block.
FirstAttempt(file, read) ==
    IF read.raised THEN Fallback(file) ELSE ReadResult(read)

read_excel(file, sheet_name_hint) ==
    FirstAttempt(file, IF sheet_name_hint # "" THEN ReadNamedSheet(file, sheet_name_hint)
                       ELSE ReadFirstSheet(file))

\* Lines 324-333 with the outcome of read_excel: without a table the script
\* shows a second error and stops.
ReadOutcome(read) ==
    IF read.found
    THEN [done |-> TRUE, stopped |-> FALSE, df |-> read.df, messages |-> read.messages]
    ELSE [done |-> TRUE, stopped |-> TRUE,
          messages |-> Append(read.messages, Message("error", "could not read"))]

-----------------------------------------------------------------------------
(* The script around process_real_data *)

\* The value of the number_input: None or a number.
Unset == [set |-> FALSE]

Days(n) == [set |-> TRUE, value |-> n]

course_column_candidates == <<"course_name", "Course Name", "Class", "Grade", "Section">>

\* Lines 341-348: the first candidate that is a column of df, else None.
RECURSIVE FirstCandidate(_, _)
FirstCandidate(df, candidates) ==
    IF candidates = <<>> THEN None
    ELSE IF HasColumn(df, Head(candidates)) THEN Head(candidates)
    ELSE FirstCandidate(df, Tail(candidates))

DetectCourseColumn(df) == FirstCandidate(df, course_column_candidates)

\* default_classes, in the order of the dict
default_classes ==
    <<<<"7th Year", "GRADE 07">>, <<"6th Year", "GRADE 06">>,
      <<"5th Year", "GRADE 05">>, <<"4th Year", "GRADE 04">>,
      <<"3rd Year", "GRADE 03">>, <<"2nd Year", "GRADE 02">>,
      <<"1st Year", "GRADE 01">>>>

\* The value of the first entry of default_classes whose key is in str(course)
RECURSIVE FirstDefault(_, _)
FirstDefault(course, defaults) ==
    IF defaults = <<>> THEN None
    ELSE IF IsSubstring(Chars[Head(defaults)[1]], Chars[course])
         THEN Head(defaults)[2]
         ELSE FirstDefault(course, Tail(defaults))

\* No sentinel: the blank course value is named like any other, "GRADE nan".
DefaultClassOfStr(course) ==
    IF course = NaNCell THEN "GRADE nan"
    ELSE LET default_class == FirstDefault(course.s, default_classes)
         IN  IF default_class # None THEN default_class
             ELSE Str(<<"G", "R", "A", "D", "E", " ">> \o Chars[course.s])

\* What the text input of a course value shows before any edit (the course
\* cells of the tables here are text or blank).
DefaultClass(course) ==
    IF course = NaNCell THEN "UNASSIGNED"
    ELSE LET default_class == FirstDefault(course.s, default_classes)
         IN  IF default_class # None THEN default_class
             ELSE Str(<<"G", "R", "A", "D", "E", " ">> \o Chars[course.s])

\* class_mapping with every text input left as it is: one key for every value
\* of df[course_column].unique().
DefaultClassMapping(df, course_column) ==
    [course \in Range(Column(df, course_column)) |-> DefaultClass(course)]

\* The lines of the text area before any edit
default_class_names ==
    <<"GRADE 01", "GRADE 02", "GRADE 03", "GRADE 04", "GRADE 05", "GRADE 06",
      "GRADE 07">>

\* The widgets of lines 359-404: the mapping of the text inputs when a course
\* column was detected, else the lines of the text area.
NoInput == [class_mapping |-> [value \in {} |-> ""], class_names |-> <<>>]

DefaultInput(df) ==
    IF DetectCourseColumn(df) # None
    THEN [class_mapping |-> DefaultClassMapping(df, DetectCourseColumn(df)),
          class_names |-> <<>>]
    ELSE [class_mapping |-> [value \in {} |-> ""],
          class_names |-> default_class_names]

\* list(set(class_mapping.values())): the distinct values in any order
SetToLists(S) == {list \in [1..Cardinality(S) -> S] : Range(list) = S}

\* class_list as the script hands it to process_real_data
ClassLists(df, input) ==
    IF DetectCourseColumn(df) # None
    THEN SetToLists(Range(input.class_mapping))
    ELSE {input.class_names}

\* No validation at all.
RejectedNever(wd) == FALSE

\* if working_days is None ... if working_days <= 0: the run stops with an error.
Rejected(wd) == ~wd.set \/ wd.value <= 0

NoOutcome ==
    [status |-> "none", stored_days |-> FALSE, messages |-> <<>>]

\* Lines 645-653: the highlights, and the results stored.
StoreResults(result, names, rows) ==
    IF HighlightsRaise(result.detailed_dfs, rows)
    THEN [status |-> "raised", stored_days |-> TRUE, error |-> "KeyError",
          result |-> result, summary_df |-> rows, messages |-> result.messages]
    ELSE [status |-> "ok", stored_days |-> TRUE, result |-> result,
          sorted_class_names |-> names, summary_df |-> rows,
          highlights |-> generate_highlights(result.detailed_dfs, rows),
          messages |-> result.messages]

\* Lines 624-653: the summary of the classes in their sorted order.
Summarise(result, names, wd) ==
    IF SummaryRaises(result.detailed_dfs)
    THEN [status |-> "raised", stored_days |-> TRUE, error |-> "KeyError",
          result |-> result, messages |-> result.messages]
    ELSE StoreResults(result, names, SummaryRows(result.detailed_dfs, names, wd.value))

\* Lines 620-653, result being what process_real_data did.
AfterProcessing(result, wd) ==
    IF result.raised # "none"
    THEN [status |-> "raised", stored_days |-> TRUE, error |-> result.raised,
          result |-> result, messages |-> result.messages]
    ELSE IF result.detailed_dfs.keys = <<>>
    THEN [status |-> "no data", stored_days |-> TRUE, result |-> result,
          messages |-> Append(result.messages, Message("error", "no data"))]
    ELSE Summarise(result, sort_class_names(result.detailed_dfs.keys), wd)

\* The body of "if process_button:" (lines 605-653). status tells how the run
\* ended: "rejected" (st.stop() of line 609 or 613), "raised" (an exception),
\* "no data" (st.stop() of line 622) or "ok" (line 653 reached); stored_days
\* tells whether line 616 was executed.
ProcessRun(df, class_list, course_column, class_mapping, wd) ==
    IF Rejected(wd)
    THEN [status |-> "rejected", stored_days |-> FALSE,
          messages |-> <<Message("error", "working days")>>]
    ELSE AfterProcessing(process_real_data(df, class_list, course_column,
                                           class_mapping, wd),
                         wd)

-----------------------------------------------------------------------------
(* Inputs: uploaded tables, class lists and alias tables *)

MaxRows == 3
MaxClasses == 2
MaxKeys == 3
MaxResets == 2
LongRows == 12

SeqsUpTo(S, n) == UNION {[1..k -> S] : k \in 0..n}

StudentNames ==
    <<"Aisha", "Bilal", "Hamza", "Idris", "Yusuf", "Maryam", "Nuh", "Omar", "Rania",
      "Salma", "Tariq", "Umar", "Zahra", "Zayd">>

\* What a row says about a student: the cells for the days present and absent
\* and for the course.
RowChoices ==
    {[present |-> Num(8), absent |-> Num(2), course |-> Text("6th Year")],
     [present |-> Num(10), absent |-> Num(0), course |-> Text("7th Year")],
     [present |-> NaNCell, absent |-> NaNCell, course |-> NaNCell],
     [present |-> Num(10), absent |-> NaNCell, course |-> Text("Hifz")]}

\* The cell of row r under a header: the header decides which fact it shows.
CellUnder(header, r, fact) ==
    IF header \in {"Admission No", "Adm No", "Roll"} THEN Num(r)
    ELSE IF header \in {"Student Name", "Name Student"} THEN Text(StudentNames[r])
    ELSE IF header \in {"Present", "Presents", "Days Present"} THEN fact.present
    ELSE IF header \in {"Absent", "Absent Days", "Absent Periods"} THEN fact.absent
    ELSE IF header \in {"Late"} THEN Num(1)
    ELSE IF header \in {"Very_Late", "Very Late"} THEN Num(0)
    ELSE fact.course

\* The DataFrame read from a sheet with these headers and these rows.
MakeTable(headers, facts) ==
    [cols |-> headers,
     rows |-> [r \in 1..Len(facts) |->
                  [k \in 1..Len(headers) |-> CellUnder(headers[k], r, facts[r])]]]

CourseHeaders == <<"Admission No", "Student Name", "Present", "Absent", "course_name">>

PlainHeaders == <<"Admission No", "Student Name", "Present", "Absent">>

OtherHeaders ==
    {<<"Adm No", "Name Student", "Days Present", "Absent Days", "Class">>,
     <<"Admission No", "Name Student", "Present", "Absent", "Grade">>,
     <<"Admission No", "Student Name", "Absent", "course_name">>,
     <<"Admission No", "Student Name", "Present", "course_name">>,
     <<"Admission No", "Student Name", "Days Present", "Absent Periods">>,
     <<"Admission No", "Student Name">>,
     <<"Admission No", "Student Name", "Present", "Absent", "Late", "Very Late">>,
     <<"Roll", "Student Name", "Present", "Absent", "Section">>,
     <<"Name Student", "Student Name", "Present", "Absent">>}

ClassNames == {"GRADE 06", "GRADE 07", "UNASSIGNED"}

\* {}: the dict without keys
NoMapping == [value \in {} |-> ""]

\* What the user can have made of the widgets of lines 359-404 when the button
\* is pressed. With a course column class_mapping keeps one key for every
\* value of the column, the blank one too, and the text of one of them may be
\* overwritten; without one the text area holds any lines.
CallInputs(df) ==
    IF DetectCourseColumn(df) # None
    THEN {DefaultInput(df)} \cup
         {[DefaultInput(df) EXCEPT !.class_mapping[course] = name] :
             course \in DOMAIN DefaultInput(df).class_mapping, name \in ClassNames}
    ELSE {[DefaultInput(df) EXCEPT !.class_names = names] :
             names \in {default_class_names} \cup SeqsUpTo(ClassNames, MaxClasses)}

WorkingDayChoices == {Days(10), Days(12)}

\* The rows of a register longer than the ten students the highlights list:
\* every third student was never absent.
LongRegister ==
    [r \in 1..LongRows |->
        IF r % 3 = 0
        THEN [present |-> Num(10), absent |-> Num(0), course |-> Text("7th Year")]
        ELSE [present |-> Num(8), absent |-> Num(2), course |-> Text("6th Year")]]

\* The rows of a register of eight students of whom two were ever present,
\* once and eight times: with 12 working days their mean percentage is
\* 75 / 8 = 9.375.
TieRegister ==
    [r \in 1..8 |->
        IF r = 7
        THEN [present |-> Num(1), absent |-> Num(11), course |-> Text("6th Year")]
        ELSE IF r = 8
        THEN [present |-> Num(8), absent |-> Num(4), course |-> Text("6th Year")]
        ELSE [present |-> Num(0), absent |-> Num(12), course |-> Text("6th Year")]]

\* The call of line 618 on a table: class_list and class_mapping are what
\* lines 350-404 made of the table and of the widgets.
DataCall(df, input, class_list, wd) ==
    [df |-> df, class_list |-> class_list, class_mapping |-> input.class_mapping,
     working_days |-> wd]

\* The calls of the processing step: the tables of the canonical headers, with
\* and without a course column, short tables of the other headers and the two
\* longer registers, each with the class list and the mapping the script
\* builds for it.
IsDataCall(c) ==
    \/ \E facts \in SeqsUpTo(RowChoices, MaxRows), wd \in WorkingDayChoices :
          LET df == MakeTable(CourseHeaders, facts)
          IN  \E input \in CallInputs(df) :
                 \E cl \in ClassLists(df, input) : c = DataCall(df, input, cl, wd)
    \/ \E facts \in SeqsUpTo(RowChoices, MaxRows), wd \in WorkingDayChoices :
          LET df == MakeTable(PlainHeaders, facts)
          IN  \E input \in CallInputs(df) :
                 \E cl \in ClassLists(df, input) : c = DataCall(df, input, cl, wd)
    \/ \E h \in OtherHeaders, facts \in SeqsUpTo(RowChoices, 2) :
          LET df == MakeTable(h, facts)
              input == IF DetectCourseColumn(df) # None THEN DefaultInput(df)
                       ELSE [DefaultInput(df) EXCEPT
                                !.class_names = <<"GRADE 06", "GRADE 07">>]
          IN  \E cl \in ClassLists(df, input) : c = DataCall(df, input, cl, Days(10))
    \/ LET df == MakeTable(PlainHeaders, LongRegister)
       IN  \E input \in CallInputs(df) :
              c = DataCall(df, input, input.class_names, Days(10))
    \/ LET df == MakeTable(PlainHeaders, TieRegister)
       IN  \E input \in CallInputs(df) :
              c = DataCall(df, input, input.class_names, Days(12))

SortKeys == {"GRADE 10", "GRADE 2", "GRADE 1", "GRADE 01", "UNASSIGNED", "A2B10", ""}

-----------------------------------------------------------------------------
(* State *)

\* Before the first run of the script
NoRun ==
    [kind |-> "start", status |-> "none", grouped |-> FALSE, displayed |-> FALSE,
     messages |-> <<>>]

SessionInit ==
    /\ processed = FALSE
    /\ summary_df = Unset
    /\ detailed_dfs = EmptyDict
    /\ sorted_class_names = <<>>
    /\ ss_working_days = Unset
    /\ file_uploader_key = 0
    /\ highlights = EmptyDict

WidgetsInit ==
    /\ uploaded_file = None
    /\ working_days = Unset
    /\ number_input_value = Unset
    /\ class_input = NoInput
    /\ cache = {}
    /\ last_run = NoRun

NoCall == [fn |-> "none"]

-----------------------------------------------------------------------------
(* A press of the button on its own: the call of line 618 and what follows *)

InitData ==
    /\ SessionInit
    /\ WidgetsInit
    /\ IsDataCall(call)
    /\ ret = NoOutcome

CallProcess ==
    /\ ret.status = "none"
    /\ ret' = ProcessRun(call.df, call.class_list, DetectCourseColumn(call.df),
                         call.class_mapping, call.working_days)
    /\ UNCHANGED <<session, widgets, call>>

NextData == CallProcess

SpecData == InitData /\ [][NextData]_vars

-----------------------------------------------------------------------------
(* sort_class_names called on its own *)

InitSort ==
    /\ SessionInit
    /\ WidgetsInit
    /\ call \in {[class_names |-> names] : names \in SeqsUpTo(SortKeys, MaxKeys)}
    /\ ret = [done |-> FALSE]

CallSort ==
    /\ ~ret.done
    /\ ret' = [done |-> TRUE, sorted |-> sort_class_names(call.class_names)]
    /\ UNCHANGED <<session, widgets, call>>

NextSort == CallSort

SpecSort == InitSort /\ [][NextSort]_vars

-----------------------------------------------------------------------------
(* The script run by run: every interaction of the user reruns it from the  *)
(* top with the widgets' values and the session state of that moment.       *)

Files == {"classes.xlsx", "plain.xlsx", "renamed.xlsx", "broken.xlsx"}

\* pd.read_excel fails on a workbook that openpyxl cannot open.
Readable(file) == file # "broken.xlsx"

\* read_excel(uploaded_file) for a readable workbook
FileTable(file) ==
    IF file = "classes.xlsx"
    THEN MakeTable(<<"Admission No", "Student Name", "Present", "Absent",
                     "course_name">>,
                   <<[present |-> Num(8), absent |-> Num(2), course |-> Text("6th Year")],
                     [present |-> Num(10), absent |-> Num(0), course |-> Text("7th Year")],
                     [present |-> Num(9), absent |-> Num(1), course |-> Text("6th Year")]>>)
    ELSE IF file = "plain.xlsx"
    THEN MakeTable(<<"Admission No", "Student Name", "Present", "Absent">>,
                   <<[present |-> Num(8), absent |-> Num(2), course |-> NaNCell],
                     [present |-> Num(10), absent |-> Num(0), course |-> NaNCell],
                     [present |-> Num(7), absent |-> Num(3), course |-> NaNCell]>>)
    ELSE MakeTable(<<"Adm No", "Name Student", "Days Present", "Absent Days", "Class">>,
                   <<[present |-> Num(8), absent |-> Num(2), course |-> Text("7th Year")]>>)

\* What the user can make of the mapping inputs or of the text area.
ClassInputs(df) ==
    IF DetectCourseColumn(df) # None
    THEN {DefaultInput(df)} \cup
         {[DefaultInput(df) EXCEPT !.class_mapping[course] = "GRADE 06"] :
             course \in DOMAIN DefaultInput(df).class_mapping}
    ELSE {[DefaultInput(df) EXCEPT !.class_names = names] :
             names \in {default_class_names, <<"GRADE 06", "GRADE 07">>,
                        <<"GRADE 07", "GRADE 07">>, <<>>}}

\* What the script shows when it runs without the button pressed.
Rerun(kind) ==
    [kind |-> kind, status |-> "none", grouped |-> FALSE,
     displayed |-> uploaded_file' # None /\ Readable(uploaded_file') /\ processed',
     messages |-> <<>>]

\* What a press of the button does with a workbook, the widgets' values and
\* an order of the class list, computed once for all the runs of the script.
ButtonPresses ==
    UNION {UNION {{<<file, input, class_list, wd>> :
                      class_list \in ClassLists(FileTable(file), input),
                      wd \in {Unset} \cup WorkingDayChoices} :
                  input \in ClassInputs(FileTable(file))} :
           file \in {f \in Files : Readable(f)}}

RunTable ==
    [press \in ButtonPresses |->
        ProcessRun(FileTable(press[1]), press[3], DetectCourseColumn(FileTable(press[1])),
                   press[2].class_mapping, press[4])]

Init ==
    /\ SessionInit
    /\ WidgetsInit
    /\ call = NoCall
    /\ ret = NoOutcome

\* What the number_input of lines 407-414 returns in a run of the script, the
\* field holding entered: the widget has no key, so it is the widget of the
\* last run only while its value= parameter is the same; a number_input of
\* another value= is a new widget, which returns that value.
NumberInput(entered) ==
    IF number_input_value = ss_working_days THEN entered ELSE ss_working_days

\* The user puts a workbook into the empty file_uploader: the number_input
\* was not there in the last run, it is built anew.
Upload(file) ==
    /\ uploaded_file = None
    /\ uploaded_file' = file
    /\ cache' = cache \cup {file}
    /\ class_input' = IF Readable(file) THEN DefaultInput(FileTable(file)) ELSE NoInput
    /\ working_days' = ss_working_days
    /\ number_input_value' = ss_working_days
    /\ UNCHANGED <<session, call, ret>>
    /\ last_run' = Rerun("upload")

\* The user removes the workbook from the file_uploader: the script stops at
\* line 305 and the widgets below it are gone.
ClearFile ==
    /\ uploaded_file # None
    /\ uploaded_file' = None
    /\ class_input' = NoInput
    /\ working_days' = ss_working_days
    /\ number_input_value' = ss_working_days
    /\ UNCHANGED <<session, cache, call, ret>>
    /\ last_run' = Rerun("clear")

\* The user edits a mapping input or the text area.
EditClasses(input) ==
    /\ uploaded_file # None
    /\ Readable(uploaded_file)
    /\ input \in ClassInputs(FileTable(uploaded_file))
    /\ class_input' = input
    /\ working_days' = NumberInput(working_days)
    /\ number_input_value' = ss_working_days
    /\ cache' = cache \cup {uploaded_file}
    /\ UNCHANGED <<session, uploaded_file, call, ret>>
    /\ last_run' = Rerun("edit")

\* The user types into the number_input (min_value=1); the field can be
\* emptied only while its value parameter is None. What was typed is lost
\* when the run it starts builds the number_input with another value=, as
\* the run after a press of the button that stored other working days does.
SetWorkingDays(value) ==
    /\ uploaded_file # None
    /\ Readable(uploaded_file)
    /\ value.set \/ ~number_input_value.set
    /\ working_days' = NumberInput(value)
    /\ number_input_value' = ss_working_days
    /\ cache' = cache \cup {uploaded_file}
    /\ UNCHANGED <<session, uploaded_file, class_input, call, ret>>
    /\ last_run' = Rerun("days")

\* The user presses "Process Attendance Data" (lines 603-653).
Process ==
    /\ uploaded_file # None
    /\ Readable(uploaded_file)
    /\ \E class_list \in ClassLists(FileTable(uploaded_file), class_input) :
          LET run == RunTable[<<uploaded_file, class_input, class_list,
                                NumberInput(working_days)>>]
          IN  /\ ss_working_days' =
                     IF run.stored_days THEN NumberInput(working_days)
                     ELSE ss_working_days
              /\ IF run.status = "ok"
                 THEN /\ processed' = TRUE
                      /\ summary_df' = [set |-> TRUE, rows |-> run.summary_df]
                      /\ detailed_dfs' = run.result.detailed_dfs
                      /\ sorted_class_names' = run.sorted_class_names
                      /\ highlights' = run.highlights
                 ELSE UNCHANGED <<processed, summary_df, detailed_dfs,
                                  sorted_class_names, highlights>>
              /\ last_run' = [kind |-> "process", status |-> run.status,
                              grouped |-> "result" \in DOMAIN run,
                              displayed |-> run.status = "ok",
                              messages |-> run.messages]
    /\ working_days' = NumberInput(working_days)
    /\ number_input_value' = ss_working_days
    /\ cache' = cache \cup {uploaded_file}
    /\ UNCHANGED <<file_uploader_key, uploaded_file, class_input, call, ret>>

\* The user presses "Add a new file", shown below the results: the run of
\* the press reads the workbook at line 325 on its way to the button, then
\* reset_application() and st.rerun(), which stops at the empty file_uploader.
Reset ==
    /\ last_run.displayed
    /\ file_uploader_key < MaxResets
    /\ processed' = FALSE
    /\ summary_df' = Unset
    /\ detailed_dfs' = EmptyDict
    /\ sorted_class_names' = <<>>
    /\ ss_working_days' = Unset
    /\ highlights' = EmptyDict
    /\ file_uploader_key' = file_uploader_key + 1
    /\ uploaded_file' = None
    /\ class_input' = NoInput
    /\ working_days' = Unset
    /\ number_input_value' = Unset
    /\ cache' = cache \cup {uploaded_file}
    /\ UNCHANGED <<call, ret>>
    /\ last_run' = Rerun("reset")

\* ttl=600: an entry of the cache expires.
CacheExpire(file) ==
    /\ file \in cache
    /\ cache' = cache \ {file}
    /\ UNCHANGED <<session, uploaded_file, working_days, number_input_value,
                   class_input, last_run, call, ret>>

Next ==
    \/ \E file \in Files : Upload(file)
    \/ ClearFile
    \/ \E input \in UNION {ClassInputs(FileTable(file)) :
                               file \in {f \in Files : Readable(f)}} :
          EditClasses(input)
    \/ \E value \in {Unset} \cup WorkingDayChoices : SetWorkingDays(value)
    \/ Process
    \/ Reset
    \/ \E file \in Files : CacheExpire(file)

Spec == Init /\ [][Next]_vars

-----------------------------------------------------------------------------
(* The script up to line 333 run on a workbook, with a sheet name handed to  *)
(* read_excel                                                                *)

MaxSheets == 2

SheetNames == {"Sheet1", "Attendance", "Summary"}

\* The table a sheet of the name holds.
SheetTable(name) ==
    IF name = "Sheet1" THEN FileTable("plain.xlsx")
    ELSE IF name = "Attendance" THEN FileTable("classes.xlsx")
    ELSE FileTable("renamed.xlsx")

\* The workbooks: one that cannot be opened, and those of one sheet or more.
Workbooks ==
    {[readable |-> FALSE, sheets |-> <<>>]} \cup
    {[readable |-> TRUE,
      sheets |-> [i \in 1..Len(names) |-> [name |-> names[i], df |-> SheetTable(names[i])]]] :
        names \in {list \in SeqsUpTo(SheetNames, MaxSheets) :
                      /\ list # <<>>
                      /\ \A i, j \in 1..Len(list) : i # j => list[i] # list[j]}}

SheetHints == {""} \cup SheetNames \cup {"Missing"}

\* The run that filled the session state of a session with results.
EarlierRun ==
    ProcessRun(FileTable("plain.xlsx"), <<"GRADE 06", "GRADE 07">>, None, NoMapping,
               Days(10))

\* The session is new, or it holds the results of a run whose workbook the
\* user has taken out of the file_uploader since.
InitRead ==
    /\ \/ SessionInit /\ working_days = Unset /\ number_input_value = Unset
          /\ cache = {}
       \/ /\ processed = TRUE
          /\ summary_df = [set |-> TRUE, rows |-> EarlierRun.summary_df]
          /\ detailed_dfs = EarlierRun.result.detailed_dfs
          /\ sorted_class_names = EarlierRun.sorted_class_names
          /\ ss_working_days = Days(10)
          /\ file_uploader_key = 0
          /\ highlights = EarlierRun.highlights
          /\ working_days = Days(10)
          /\ number_input_value = Days(10)
          /\ cache = {"plain.xlsx"}
    /\ uploaded_file = None
    /\ class_input = NoInput
    /\ last_run = NoRun
    /\ \E file \in Workbooks, hint \in SheetHints :
          call = [file |-> file, sheet_name_hint |-> hint, before |-> session]
    /\ ret = [done |-> FALSE]

\* The script runs on the workbook up to line 333.
CallRead ==
    /\ ~ret.done
    /\ ret' = ReadOutcome(read_excel(call.file, call.sheet_name_hint))
    /\ UNCHANGED <<session, widgets, call>>

NextRead == CallRead

SpecRead == InitRead /\ [][NextRead]_vars

-----------------------------------------------------------------------------
(* Properties of sort_class_names (under SpecSort) *)

\* The integer written by the first run of digits of a name, read off the
\* characters: [inf |-> TRUE] when the name has no digit.
FirstRunValue(name) ==
    LET cs == Chars[name]
        digits == {i \in 1..Len(cs) : IsDigit(cs[i])}
    IN  IF digits = {} THEN [inf |-> TRUE, n |-> 0]
        ELSE LET first == CHOOSE i \in digits : \A j \in digits : i <= j
                 last == CHOOSE e \in first..Len(cs) :
                            /\ \A j \in first..e : j \in digits
                            /\ (e + 1) \notin digits
                 value[i \in (first - 1)..last] ==
                     IF i = first - 1 THEN 0
                     ELSE value[i - 1] * 10 + DigitValue(cs[i])
             IN  [inf |-> FALSE, n |-> value[last]]

\* key a <= key b, a name without digits being greater than all numbers
KeyAtMost(a, b) == b.inf \/ (~a.inf /\ a.n <= b.n)

\* C3: sort_class_names returns a permutation of its input in ascending order
\* of the integer of the first run of digits, the names without digits last
\* and names of equal key in their input order; GRADE 10, GRADE 2, GRADE 1
\* comes out as GRADE 1, GRADE 2, GRADE 10.
NaturalOrdering ==
    ret.done =>
        LET input == call.class_names
            output == ret.sorted
            n == Len(input)
        IN  /\ Len(output) = n
            /\ \E p \in [1..n -> 1..n] :
                  /\ \A i, j \in 1..n : i # j => p[i] # p[j]
                  /\ \A i \in 1..n : output[i] = input[p[i]]
                  /\ \A i, j \in 1..n :
                        i < j =>
                          /\ KeyAtMost(FirstRunValue(output[i]), FirstRunValue(output[j]))
                          /\ FirstRunValue(output[i]) = FirstRunValue(output[j])
                                => p[i] < p[j]
            /\ input = <<"GRADE 10", "GRADE 2", "GRADE 1">>
                  => output = <<"GRADE 1", "GRADE 2", "GRADE 10">>

\* A list with a name without digits in front and two names of equal key
\* has been sorted.
NaturalOrderingReached ==
    /\ ret.done
    /\ call.class_names = <<"UNASSIGNED", "GRADE 01", "GRADE 1">>
    /\ ret.sorted = <<"GRADE 01", "GRADE 1", "UNASSIGNED">>

-----------------------------------------------------------------------------
(* Properties of the processing step (under SpecData) *)

\* process_real_data was entered by the call and ret holds what it did.
Ran == ret.status \notin {"none", "rejected"}

\* The number of rows of all the tables of a dict together
EmittedRows(detailed) ==
    Cardinality(UNION {{<<k, i>> : i \in 1..Len(detailed.val[detailed.keys[k]].rows)} :
                          k \in 1..Len(detailed.keys)})

\* The cells that tell the students of a table apart
RowIdentity(table, i) ==
    [name \in {"Admission No", "Student Name"} \cap Range(table.cols) |->
        table.rows[i][ColumnIndex(table, name)]]

\* The rows of the input whose raw course value resolves to no declared class
ExcludedRows ==
    LET df == call.df
        raw == Column(df, DetectCourseColumn(df))
    IN  {r \in 1..Len(df.rows) :
            ~(/\ raw[r] \in DOMAIN call.class_mapping
              /\ call.class_mapping[raw[r]] \in Range(call.class_list))}

\* C1: with the category strategy the rows of the emitted class tables and the
\* excluded rows (those whose resolved class is not declared) add up to the
\* rows of the input, and no row is in two class tables.
GroupingComplete ==
    (Ran /\ ret.result.strategy = "category") =>
        LET detailed == ret.result.detailed_dfs
        IN  /\ EmittedRows(detailed) + Cardinality(ExcludedRows) = Len(call.df.rows)
            /\ \A k1, k2 \in 1..Len(detailed.keys) :
                  k1 < k2 =>
                    LET t1 == detailed.val[detailed.keys[k1]]
                        t2 == detailed.val[detailed.keys[k2]]
                    IN  \A i \in 1..Len(t1.rows), j \in 1..Len(t2.rows) :
                           RowIdentity(t1, i) # RowIdentity(t2, j)

\* A category run on three rows that emitted two class tables, two of the
\* rows in one of them.
GroupingCompleteReached ==
    /\ Ran
    /\ ret.result.strategy = "category"
    /\ Len(ret.result.detailed_dfs.keys) = 2
    /\ EmittedRows(ret.result.detailed_dfs) = 3
    /\ Len(call.df.rows) = 3

\* The cells the input holds for a student
InputCells == {"Admission No", "Student Name", "Present", "Absent"}

\* C2: with the positional strategy, N rows and G >= 1 declared classes, the
\* i-th class in declared order (from 0) is handed floor(N/G) rows, and one
\* more if i < N mod G, taken from the input in its order.
PositionalSizes ==
    (Ran /\ ret.result.strategy = "positional") =>
        LET df == call.df
            N == Len(df.rows)
            G == Len(call.class_list)
            handed == ret.result.handed
            size(i) == (N \div G) + (IF i < N % G THEN 1 ELSE 0)
            offset[i \in 0..G] == IF i = 0 THEN 0 ELSE offset[i - 1] + size(i - 1)
        IN  /\ Len(handed) = G
            /\ \A i \in 0..(G - 1) :
                  LET class_data == handed[i + 1].class_data
                  IN  /\ handed[i + 1].class_name = call.class_list[i + 1]
                      /\ Len(class_data.rows) = size(i)
                      /\ \A j \in 1..size(i) :
                            \A name \in InputCells \cap Range(df.cols)
                                        \cap Range(class_data.cols) :
                               class_data.rows[j][ColumnIndex(class_data, name)]
                                 = df.rows[offset[i] + j][ColumnIndex(df, name)]
                      /\ (\A k \in (i + 2)..G : call.class_list[k] # call.class_list[i + 1])
                            => ret.result.detailed_dfs.val[call.class_list[i + 1]]
                                 = class_data

\* A positional run of three rows over two classes: two rows, then one.
PositionalSizesReached ==
    /\ Ran
    /\ ret.result.strategy = "positional"
    /\ Len(call.df.rows) = 3
    /\ Len(call.class_list) = 2
    /\ Len(ret.result.handed[1].class_data.rows) = 2
    /\ Len(ret.result.handed[2].class_data.rows) = 1

\* The sum of the whole numbers among the cells, blank cells left out
RECURSIVE TotalOf(_)
TotalOf(cells) ==
    IF cells = <<>> THEN 0
    ELSE (IF IsNumber(Head(cells)) THEN Head(cells).num ELSE 0) + TotalOf(Tail(cells))

NonBlank(cells) == Cardinality({i \in 1..Len(cells) : IsNumber(cells[i])})

\* h hundredths is total/count rounded to two decimals: the nearest hundredth,
\* the upper or the even one of two equally near; NaN when there is nothing
\* to average.
IsAverage(h, total, count) ==
    IF count = 0 THEN h = NaN
    ELSE LET d == 100 * total - h * count
             distance == IF d < 0 THEN 0 - d ELSE d
         IN  \/ 2 * distance < count
             \/ 2 * distance = count /\ (h % 2 = 0 \/ d < 0)

\* C4: the summary has one row per emitted class, with Total_Students the
\* rows of the class table, Total_Working_Days the working days entered and
\* every Avg_ field the mean of the non-blank cells of the field rounded to
\* two decimals, the attendance percentage of a row being
\* Present / working_days * 100. Present = [8, 10] with 10 working days gives
\* 2 students, 9.00 and 90.00.
SummaryRowsRight ==
    "summary_df" \in DOMAIN ret =>
        LET detailed == ret.result.detailed_dfs
            wd == call.working_days.value
        IN  /\ Len(ret.summary_df) = Len(detailed.keys)
            /\ \A key \in Range(detailed.keys) :
                  \E k \in 1..Len(ret.summary_df) : ret.summary_df[k].Class = key
            /\ \A k \in 1..Len(ret.summary_df) :
                  LET row == ret.summary_df[k]
                      table == detailed.val[row.Class]
                      present == Column(table, "Present")
                      Avg(h, field) == IsAverage(h, TotalOf(Column(table, field)),
                                                 NonBlank(Column(table, field)))
                  IN  /\ row.Total_Students = Len(table.rows)
                      /\ row.Total_Working_Days = wd
                      /\ Avg(row.Avg_Present, "Present")
                      /\ Avg(row.Avg_Absent, "Absent")
                      /\ Avg(row.Avg_Late, "Late")
                      /\ Avg(row.Avg_Very_Late, "Very_Late")
                      /\ IsAverage(row.Avg_Attendance_Percentage,
                                   100 * TotalOf(present), wd * NonBlank(present))
                      /\ (present = <<Num(8), Num(10)>> /\ wd = 10)
                            => /\ row.Total_Students = 2
                               /\ row.Avg_Present = 900
                               /\ row.Avg_Attendance_Percentage = 9000

\* C5: whichever strategy groups the rows, a declared class left without rows
\* is reported by a warning and is absent from detailed_dfs, from
\* sorted_class_names and from the summary; no emitted table is empty.
EmptyClassesLeftOut ==
    (Ran /\ ret.result.raised = "none") =>
        LET detailed == ret.result.detailed_dfs
        IN  /\ \A class_name \in Range(call.class_list) :
                  \/ /\ class_name \in Range(detailed.keys)
                     /\ detailed.val[class_name].rows # <<>>
                  \/ /\ class_name \notin Range(detailed.keys)
                     /\ Message("no students", class_name) \in Range(ret.messages)
            /\ "sorted_class_names" \in DOMAIN ret =>
                  \A k \in 1..Len(ret.sorted_class_names) :
                     detailed.val[ret.sorted_class_names[k]].rows # <<>>
            /\ "summary_df" \in DOMAIN ret =>
                  \A k \in 1..Len(ret.summary_df) : ret.summary_df[k].Total_Students > 0

\* Row r of the input is a row of the table emitted for the class: a row of
\* the table holds its cells under every column of the input the table keeps.
KeptUnder(class_name, r) ==
    LET detailed == ret.result.detailed_dfs
    IN  /\ class_name \in Range(detailed.keys)
        /\ LET table == detailed.val[class_name]
           IN  \E i \in 1..Len(table.rows) :
                  \A name \in Range(table.cols) \cap Range(call.df.cols) :
                     table.rows[i][ColumnIndex(table, name)]
                       = call.df.rows[r][ColumnIndex(call.df, name)]

MatchedColumnsUsable ==
    Ran =>
        \A k \in 1..Len(required_columns) :
           LET label == required_columns[k]
               match == extractOne(label, call.df.cols)
               aligned == ret.result.aligned
           IN  (match.found /\ ScoreAbove(match.score, MatchThreshold)) =>
                  /\ HasColumn(aligned, label)
                  /\ Column(aligned, label) = Column(call.df, match.choice)

\* The score is below the cutoff, an integer percentage.
ScoreBelow(score, cutoff) == 100 * score.num < cutoff * score.den

\* The label was left without a source column: the warning of line 523 for a
\* required label, no entry in column_mapping for an optional one.
LeftUnmapped(label) ==
    IF label \in Range(required_columns)
    THEN Message("no matching column", label) \in Range(ret.result.messages)
    ELSE label \notin DOMAIN ret.result.column_mapping

\* C11: every canonical label is mapped to a column of the upload of the
\* highest score, and is left without a source exactly when the upload has no
\* columns or the highest score is below the threshold; a highest score equal
\* to the threshold gives a mapping.
ThresholdRule ==
    Ran =>
        \A label \in Range(required_columns) \cup Range(optional_columns) :
           LET cols == call.df.cols
               score == [i \in 1..Len(cols) |-> ScoreTable[label][cols[i]]]
               top == {i \in 1..Len(cols) :
                          \A j \in 1..Len(cols) : ~ScoreGreater(score[j], score[i])}
           IN  /\ LeftUnmapped(label) <=>
                     \A i \in 1..Len(cols) : ScoreBelow(score[i], MatchThreshold)
               /\ ~LeftUnmapped(label) =>
                     \E i \in top : ret.result.column_mapping[label] = cols[i]

\* The field is blank in a class table: no column of the name, or no value
\* in any of its cells.
BlankField(table, label) ==
    HasColumn(table, label) =>
        \A r \in 1..Len(table.rows) : ~IsNumber(Column(table, label)[r])
                                      /\ "s" \notin DOMAIN Column(table, label)[r]

\* C12: when a required label has no column of the upload above the
\* threshold, the warning for the label is shown, the label stands in for its
\* source, and the run goes on to its end without an exception, the field
\* blank in every class table.
MismatchContinues ==
    Ran =>
        \A label \in Range(required_columns) :
           ~Accepted(extractOne(label, call.df.cols)) =>
              /\ Message("no matching column", label) \in Range(ret.messages)
              /\ ret.result.column_mapping[label] = label
              /\ ret.status # "raised"
              /\ \A key \in Range(ret.result.detailed_dfs.keys) :
                    BlankField(ret.result.detailed_dfs.val[key], label)

\* The grouping has nothing to go by: no declared class, no row, or a course
\* column none of whose rows resolves to a declared class.
NoUsableSignal ==
    \/ call.class_list = <<>>
    \/ call.df.rows = <<>>
    \/ /\ UseCategory(DetectCourseColumn(call.df), call.class_mapping)
       /\ Cardinality(ExcludedRows) = Len(call.df.rows)

\* C13: a run on a table of the canonical columns whose grouping has nothing
\* to go by shows a warning and distributes the rows by position; it neither
\* raises nor stops without a result.
DegradesToPositional ==
    (Ran /\ call.df.cols \in {CourseHeaders, PlainHeaders} /\ NoUsableSignal) =>
        /\ ret.status \notin {"raised", "no data"}
        /\ ret.result.strategy = "positional"
        /\ ret.messages # <<>>

\* The rows of the summary that hold a percentage
Valued(rows) == {k \in 1..Len(rows) : rows[k].Avg_Attendance_Percentage # NaN}

\* Row k is the first of the rows in among whose percentage no row in among
\* exceeds (sign 1) or undercuts (sign -1).
FirstExtreme(rows, among, k, sign) ==
    /\ k \in among
    /\ \A j \in among :
          /\ sign * rows[j].Avg_Attendance_Percentage
                <= sign * rows[k].Avg_Attendance_Percentage
          /\ j < k => sign * rows[j].Avg_Attendance_Percentage
                         < sign * rows[k].Avg_Attendance_Percentage

\* The student rows of the class tables with the cell Absent equal to 0
ZeroAbsentRows(detailed) ==
    UNION {{<<key, r>> : r \in {i \in 1..Len(detailed.val[key].rows) :
                                  Column(detailed.val[key], "Absent")[i] = Num(0)}} :
             key \in Range(detailed.keys)}

\* C15: the highlights of a run name as best class the first summary row
\* whose Avg_Attendance_Percentage no row exceeds and as worst class the first
\* one no row undercuts (rows without a percentage aside); zero_absence_count
\* is the number of student rows with Absent = 0, high_absence_count is
\* min(10, student rows), and best_class_with_absentees is the first row of
\* the highest percentage among the rows with Avg_Absent > 0, none when there
\* is no such row.
HighlightsRight ==
    ret.status = "ok" =>
        LET rows == ret.summary_df
            h == ret.highlights
            detailed == ret.result.detailed_dfs
            total == EmittedRows(detailed)
            some == {k \in Valued(rows) :
                        rows[k].Avg_Absent # NaN /\ rows[k].Avg_Absent > 0}
        IN  /\ \E k \in 1..Len(rows) :
                  /\ FirstExtreme(rows, Valued(rows), k, 1)
                  /\ h.best_class.class_name = rows[k].Class
                  /\ h.best_class.attendance_percentage
                        = rows[k].Avg_Attendance_Percentage
            /\ \E k \in 1..Len(rows) :
                  /\ FirstExtreme(rows, Valued(rows), k, 0 - 1)
                  /\ h.worst_class.class_name = rows[k].Class
                  /\ h.worst_class.attendance_percentage
                        = rows[k].Avg_Attendance_Percentage
            /\ h.zero_absence_count = Cardinality(ZeroAbsentRows(detailed))
            /\ h.high_absence_count = (IF total < 10 THEN total ELSE 10)
            /\ IF some = {}
               THEN h.best_class_with_absentees.class_name = None
               ELSE \E k \in some :
                       /\ FirstExtreme(rows, some, k, 1)
                       /\ h.best_class_with_absentees.class_name = rows[k].Class
                       /\ h.best_class_with_absentees.attendance_percentage
                             = rows[k].Avg_Attendance_Percentage
                       /\ h.best_class_with_absentees.avg_absent = rows[k].Avg_Absent

\* The highlights of a register of more than ten students in two classes of
\* the same percentage: the first class is the best and the worst one.
HighlightsRightReached ==
    /\ ret.status = "ok"
    /\ EmittedRows(ret.result.detailed_dfs) > 10
    /\ ret.highlights.high_absence_count = 10
    /\ ret.highlights.zero_absence_count = 4
    /\ Len(ret.summary_df) = 2
    /\ ret.summary_df[1].Avg_Attendance_Percentage
          = ret.summary_df[2].Avg_Attendance_Percentage
    /\ ret.highlights.best_class.class_name = ret.summary_df[1].Class
    /\ ret.highlights.worst_class.class_name = ret.summary_df[1].Class
    /\ ret.highlights.best_class_with_absentees.class_name = ret.summary_df[1].Class

\* The places <<class, i>> of the emitted tables that hold row r of the input
PlacesOf(detailed, df, r) ==
    UNION {{<<key, i>> : i \in {n \in 1..Len(detailed.val[key].rows) :
                                  RowIdentity(detailed.val[key], n) = RowIdentity(df, r)}} :
             key \in Range(detailed.keys)}

\* C17: with the positional strategy and any non-empty class list, one that
\* repeats a name included, every row of the input is in exactly one emitted
\* class table, every table is a run of consecutive input rows in their
\* order, and the tables together have as many rows as the input.
PositionalPartition ==
    (Ran /\ ret.result.strategy = "positional" /\ call.df.cols = PlainHeaders) =>
        LET df == call.df
            detailed == ret.result.detailed_dfs
        IN  /\ EmittedRows(detailed) = Len(df.rows)
            /\ \A r \in 1..Len(df.rows) : Cardinality(PlacesOf(detailed, df, r)) = 1
            /\ \A key \in Range(detailed.keys) :
                  \E offset \in 0..Len(df.rows) :
                     \A i \in 1..Len(detailed.val[key].rows) :
                        /\ offset + i <= Len(df.rows)
                        /\ RowIdentity(detailed.val[key], i) = RowIdentity(df, offset + i)

-----------------------------------------------------------------------------
(* Properties of the script run by run (under Spec) *)

results == <<processed, summary_df, detailed_dfs, sorted_class_names, highlights>>

\* C7: a press of the button with the working days unset or not positive shows
\* an error and stops before process_real_data is called; the run stores and
\* shows no table, summary or highlight.
ValidationStops ==
    [][(Process /\ (~working_days.set \/ working_days.value <= 0)) =>
          /\ last_run'.status = "rejected"
          /\ Message("error", "working days") \in Range(last_run'.messages)
          /\ ~last_run'.grouped
          /\ ~last_run'.displayed
          /\ UNCHANGED session]_vars

\* The button was pressed with the working days unset.
ValidationStopsReached ==
    /\ last_run.kind = "process"
    /\ last_run.status = "rejected"
    /\ ~working_days.set

\* C8: a press of the button that fails (working days rejected, no class
\* table, or an exception) leaves processed, summary_df, detailed_dfs,
\* sorted_class_names, highlights and the stored working days as they were.
FailureKeepsState ==
    [][(Process /\ last_run'.status \in {"rejected", "no data", "raised"}) =>
          UNCHANGED <<results, ss_working_days>>]_vars

\* C9: "Add a new file" leaves processed false, summary_df and the stored
\* working days unset, detailed_dfs, sorted_class_names and highlights empty,
\* the key of the file_uploader greater than before and the cache of
\* read_excel without entries; results are shown again only once a press of
\* the button has succeeded.
ResetClearsAll ==
    [][/\ Reset =>
            /\ processed' = FALSE
            /\ summary_df' = Unset
            /\ ss_working_days' = Unset
            /\ detailed_dfs' = EmptyDict
            /\ sorted_class_names' = <<>>
            /\ highlights' = EmptyDict
            /\ file_uploader_key' > file_uploader_key
            /\ cache' = {}
            /\ ~last_run'.displayed
       /\ last_run'.displayed => processed'
       /\ (~processed /\ processed') =>
             (last_run'.kind = "process" /\ last_run'.status = "ok")]_vars

\* C16: whenever processed is true, summary_df and highlights are set,
\* detailed_dfs is not empty, sorted_class_names lists the keys of
\* detailed_dfs once each in natural order, summary_df has one row per name in
\* that order, every name can be looked up in detailed_dfs, and all of them
\* are the results of one successful run.
SessionConsistent ==
    processed =>
        /\ summary_df.set
        /\ detailed_dfs.keys # <<>>
        /\ highlights # EmptyDict
        /\ Len(sorted_class_names) = Len(detailed_dfs.keys)
        /\ Range(sorted_class_names) = Range(detailed_dfs.keys)
        /\ \A i, j \in 1..Len(sorted_class_names) :
              i < j => /\ sorted_class_names[i] # sorted_class_names[j]
                       /\ KeyAtMost(FirstRunValue(sorted_class_names[i]),
                                    FirstRunValue(sorted_class_names[j]))
        /\ Len(summary_df.rows) = Len(sorted_class_names)
        /\ \A k \in 1..Len(sorted_class_names) :
              /\ summary_df.rows[k].Class = sorted_class_names[k]
              /\ sorted_class_names[k] \in DOMAIN detailed_dfs.val
              /\ summary_df.rows[k].Total_Students
                    = Len(detailed_dfs.val[sorted_class_names[k]].rows)
        /\ \E press \in ButtonPresses :
              /\ RunTable[press].status = "ok"
              /\ summary_df.rows = RunTable[press].summary_df
              /\ detailed_dfs = RunTable[press].result.detailed_dfs
              /\ sorted_class_names = RunTable[press].sorted_class_names
              /\ highlights = RunTable[press].highlights

\* After a reset, a run on a workbook whose classes were handed over in
\* another order than the natural one has stored its results.
SessionConsistentReached ==
    /\ processed
    /\ file_uploader_key = 1
    /\ last_run.kind = "process"
    /\ last_run.status = "ok"
    /\ Len(sorted_class_names) = 2
    /\ detailed_dfs.keys # sorted_class_names

-----------------------------------------------------------------------------
(* Properties of read_excel (under SpecRead) *)

\* C14: without a sheet name the first sheet is read; with the name of a
\* sheet the workbook does not have, the first sheet is read as well; an
\* error is reported and no table returned exactly when the first sheet
\* cannot be read either, and the script then stops with the results in the
\* session state as they were.
SheetFallback ==
    ret.done =>
        LET file == call.file
            hint == call.sheet_name_hint
            named == \E i \in 1..Len(file.sheets) : file.sheets[i].name = hint
        IN  /\ (file.readable /\ (hint = "" \/ ~named)) =>
                  /\ ~ret.stopped
                  /\ ret.df = file.sheets[1].df
                  /\ ret.messages = <<>>
            /\ ret.stopped <=> ~file.readable
            /\ ret.stopped =>
                  /\ "df" \notin DOMAIN ret
                  /\ Message("error", "reading file") \in Range(ret.messages)
                  /\ <<processed, summary_df, detailed_dfs, sorted_class_names,
                       highlights>>
                        = <<call.before[1], call.before[2], call.before[3],
                            call.before[4], call.before[7]>>

\* A workbook of two sheets was read with the name of a sheet it does not
\* have, in a session that holds results.
SheetFallbackReached ==
    /\ ret.done
    /\ processed
    /\ call.file.readable
    /\ Len(call.file.sheets) = 2
    /\ call.sheet_name_hint = "Missing"
    /\ ret.df = call.file.sheets[1].df
    /\ ret.df # call.file.sheets[2].df

====
